---- MODULE Spec2Model ----
(***************************************************************************)
(* XRController (source/xrcontroller.ts): the WebXR session and frame      *)
(* lifecycle controller, together with the part of the host platform       *)
(* (XRDevice, XRSession, XRFrame of source/webxr.ts) it talks to.          *)
(*                                                                         *)
(* The controller is single threaded.  An async method whose continuation  *)
(* after an await reads or writes controller state (requestSession, at its *)
(* await of the frame of reference) is cut there: the code up to the await *)
(* is one action and the continuation another.  Where the code up to an    *)
(* await only reads what no handler changes back (the device, the options) *)
(* the call and the settling of the awaited promise are one action, which  *)
(* takes the platform's answer as its input.                               *)
(***************************************************************************)
EXTENDS Integers, Sequences, FiniteSets, TLC

\* ------------------------------------------------------------- bounds ----
MaxSessions == 2    \* sessions the device hands out during one run
MaxLoads == 1       \* image loads of the texture that are under way at a time

\* ---------------------------------------------------------- constants ----
MaxViews == 2       \* XREye = 'left' | 'right': a frame has a view per eye

Sessions == 1..MaxSessions
Poses == {1}        \* the device pose a frame may resolve to
Times == {0, 1}     \* the time stamps the platform hands to a frame callback
Undefined == 0      \* the value undefined (or null) of a field or argument

\* The WebGL enumerators the texture is used with (their values in WebGL).
RGBA8 == 32856
RGB8 == 32849
RGBA16F == 34842
DEPTH_COMPONENT == 6402
DEPTH_STENCIL == 34041
RGBA == 6408
RGB == 6407
UNSIGNED_BYTE == 5121
FLOAT == 5126
HALF_FLOAT == 5131

InternalFormats == {RGBA8, RGB8, RGBA16F, DEPTH_COMPONENT, DEPTH_STENCIL}
Formats == {RGBA, RGB}
Types == {UNSIGNED_BYTE, FLOAT, HALF_FLOAT}
Extents == {1, 2}   \* the widths and heights of a texture or an image, in px

VARIABLES
    hostXR,                 \* navigator.xr !== undefined
    sessionCreationOptions, \* XRController.sessionCreationOptions
    contextAttributes,      \* XRController.contextAttributes
    webGLLayerInit,         \* XRController.webGLLayerInit
    frameOfRefType,         \* XRController.frameOfRefType
    frameOfRefOptions,      \* XRController.frameOfRefOptions
    device,                 \* XRController.device
    session,                \* XRController.session
    canvas,                 \* XRController.canvas
    gl,                     \* XRController.gl
    frameOfRef,             \* XRController.frameOfRef
    renderViews,            \* XRController.renderViews (the pool)
    _block,                 \* XRController._block
    renderer,               \* XRController.renderer (0: not assigned)
    nextSession,            \* platform: number of sessions created so far
    sessionState,           \* platform: "none" | "active" | "ended" per session
    baseLayer,              \* platform: XRSession.baseLayer (context it is bound to)
    raf,                    \* platform: pending frame callbacks per session
    listeners,              \* platform: the session has an 'end' listener of the controller
    forPending,             \* sessions whose requestFrameOfReference is awaited
    initialized,            \* Texture2: the object is initialized (Initializable)
    _width,                 \* Texture2._width
    _height,                \* Texture2._height
    _internalFormat,        \* Texture2._internalFormat
    _format,                \* Texture2._format
    _type,                  \* Texture2._type
    allocated,              \* allocationRegister: bytes tracked for the texture
    image,                  \* GPU: the texture's data store holds image data
    loading,                \* images requested by load() that have not arrived
    last                    \* the handler that ran last: what it did and returned

ctrl == <<session, canvas, gl, frameOfRef, renderViews, _block>>
config == <<hostXR, sessionCreationOptions, webGLLayerInit, frameOfRefType,
           frameOfRefOptions>>
platform == <<nextSession, sessionState, baseLayer, raf, listeners>>
texture == <<initialized, _width, _height, _internalFormat, _format, _type,
            allocated, image, loading>>
vars == <<texture, hostXR, sessionCreationOptions, contextAttributes, webGLLayerInit,
          frameOfRefType, frameOfRefOptions, device, session,
          canvas, gl, frameOfRef, renderViews, _block, renderer, nextSession,
          sessionState, baseLayer, raf, listeners, forPending, last>>

\* ------------------------------------------------------- the last run ----
\* What the handler that ran last let the outside see.  NoRun: no handler
\* has run yet.
\* op: the handler; err: the error it raised; ret: its return value;
\* dev: what the platform answered; arg: the session it was about;
\* log: the calls it made, in order; submitted/elapsed: the arguments of
\* renderer.frame; got: what getDevicePose answered ("none": not asked);
\* pose/views/viewports: the frame a callback that got a pose was given;
\* time: the time stamp it was given.
NoRun ==
    [op |-> "none", err |-> "none", ret |-> "none", dev |-> "none", arg |-> 0,
     log |-> <<>>, submitted |-> <<>>, elapsed |-> 0,
     got |-> "none", pose |-> 0, views |-> 0, viewports |-> <<>>, time |-> 0]

Run(op, err) == [NoRun EXCEPT !.op = op, !.err = err]

\* ------------------------------------------------------- render views ----
\* new RenderView(): a record without values; id tells the records apart.
NewRenderView(id) ==
    [id |-> id, projectionMatrix |-> Undefined, viewMatrix |-> Undefined,
     viewport |-> Undefined]

RECURSIVE MaxId(_)
MaxId(pool) ==
    IF pool = <<>> THEN 0
    ELSE LET m == MaxId(Tail(pool)) IN IF Head(pool).id > m THEN Head(pool).id ELSE m

\* RenderView.set(projectionMatrix, viewMatrix, viewport): writes in place.
RenderViewSet(rv, projectionMatrix, viewMatrix, viewport) ==
    [rv EXCEPT !.projectionMatrix = projectionMatrix,
               !.viewMatrix = viewMatrix,
               !.viewport = viewport]

\* XRView.projectionMatrix of the i-th view: constant per view.
ProjectionMatrix(i) == 100 + i

\* XRDevicePose.getViewMatrix(view): depends on the pose and on the view.
GetViewMatrix(pose, i) == 10 * pose + i

Init ==
    /\ hostXR \in BOOLEAN
    /\ sessionCreationOptions \in [immersive : BOOLEAN]
    /\ contextAttributes = [compatibleXRDevice |-> Undefined]
    /\ webGLLayerInit = Undefined
    /\ frameOfRefType = "eye-level"
    /\ frameOfRefOptions = Undefined
    /\ device = Undefined
    /\ session = Undefined
    /\ canvas = Undefined
    /\ gl = Undefined
    /\ frameOfRef = Undefined
    /\ renderViews = <<NewRenderView(1)>>
    /\ _block = FALSE
    /\ renderer = Undefined
    /\ nextSession = 0
    /\ sessionState = [s \in Sessions |-> "none"]
    /\ baseLayer = [s \in Sessions |-> Undefined]
    /\ raf = [s \in Sessions |-> 0]
    /\ listeners = [s \in Sessions |-> FALSE]
    /\ forPending = {}
    /\ initialized = FALSE
    /\ _width = 0
    /\ _height = 0
    /\ _internalFormat = 0
    /\ _format = 0
    /\ _type = 0
    /\ allocated = 0
    /\ image = FALSE
    /\ loading = 0
    /\ last = NoRun


\* ------------------------------------------------------------ helpers ----
\* assert(expression, message) of ./auxiliaries: throws when the expression
\* is false.
assert(expression) == expression

\* supportsXR(): navigator.xr !== undefined.
supportsXR == hostXR

\* XRSession.requestAnimationFrame(callback) on session s, given the pending
\* callbacks r: an ended session takes no callback.
RequestAnimationFrame(r, s) ==
    IF sessionState[s] = "active" THEN [r EXCEPT ![s] = @ + 1] ELSE r

\* The device has an immersive session running.
ImmersiveRunning ==
    /\ sessionCreationOptions.immersive
    /\ \E s \in Sessions : sessionState[s] = "active"

\* --------------------------------------------------------- initialize ----
\* initialize() that stores a device although the request was rejected.
initializeKeepsDevice(answer) ==
    /\ IF ~assert(supportsXR)
       THEN /\ last' = Run("initialize", "AssertionError")
            /\ UNCHANGED <<device, contextAttributes>>
       ELSE IF answer = "resolved"
       THEN /\ device' = 1
            /\ contextAttributes' = [contextAttributes EXCEPT !.compatibleXRDevice = 1]
            /\ last' = Run("initialize", "none")
       ELSE /\ last' = [Run("initialize", "NotFoundError") EXCEPT !.dev = answer]
            /\ device' = 1
            /\ UNCHANGED contextAttributes
    /\ UNCHANGED <<texture, config, ctrl, renderer, platform, forPending>>

\* initialize(): lines 69-73.  answer is what navigator.xr.requestDevice()
\* settles with.
initialize(answer) ==
    /\ IF ~assert(supportsXR)
       THEN /\ last' = Run("initialize", "AssertionError")
            /\ UNCHANGED <<device, contextAttributes>>
       ELSE IF answer = "resolved"
       THEN /\ device' = 1
            /\ contextAttributes' = [contextAttributes EXCEPT !.compatibleXRDevice = 1]
            /\ last' = Run("initialize", "none")
       ELSE /\ last' = [Run("initialize", "NotFoundError") EXCEPT !.dev = answer]
            /\ UNCHANGED <<device, contextAttributes>>
    /\ UNCHANGED <<texture, config, ctrl, renderer, platform, forPending>>

\* ---------------------------------------------------- supportsSession ----
\* supportsSession() without its catch: the rejection reaches the caller.
SupportsSessionRethrows(answer) ==
    IF answer = "resolved"
    THEN [Run("supportsSession", "none") EXCEPT !.ret = "true"]
    ELSE Run("supportsSession", "NotSupportedError")

\* Lines 81-86: try { await device.supportsSession(options); return true; }
\* catch (e) { return false; }
SupportsSessionReturn(answer) ==
    IF answer = "resolved"
    THEN [Run("supportsSession", "none") EXCEPT !.ret = "true"]
    ELSE [Run("supportsSession", "none") EXCEPT !.ret = "false"]

\* supportsSession() without the assertion of line 80: the device is asked
\* whether the controller has one or not.
supportsSessionUnchecked(answer) ==
    /\ last' = [SupportsSessionReturn(answer) EXCEPT !.dev = answer]
    /\ UNCHANGED <<texture, config, contextAttributes, device, ctrl, renderer, platform,
                   forPending>>

\* supportsSession(): lines 79-87.  answer is what device.supportsSession
\* settles with.
supportsSession(answer) ==
    /\ IF ~assert(device # Undefined)
       THEN last' = Run("supportsSession", "AssertionError")
       ELSE last' = [SupportsSessionReturn(answer) EXCEPT !.dev = answer]
    /\ UNCHANGED <<texture, config, contextAttributes, device, ctrl, renderer, platform,
                   forPending>>

\* ----------------------------------------------------- requestSession ----
\* The errors the device may reject a session request with.
SessionRejections ==
    {"NotSupportedError"}
        \cup (IF ImmersiveRunning THEN {"InvalidStateError"} ELSE {})
        \cup (IF sessionCreationOptions.immersive THEN {"SecurityError"} ELSE {})

\* requestSession() that asks the device a second time when the device
\* rejects the request.
requestSessionRetries(answer) ==
    /\ IF device = Undefined
       THEN /\ last' = Run("requestSession", "TypeError")
            /\ UNCHANGED <<session, canvas, gl, nextSession, sessionState,
                           baseLayer, forPending>>
       ELSE IF answer = "resolved"
       THEN /\ nextSession < MaxSessions
            /\ ~ImmersiveRunning
            /\ LET s == nextSession + 1 IN
                /\ nextSession' = s
                /\ sessionState' = [sessionState EXCEPT ![s] = "active"]
                /\ session' = s
                /\ canvas' = s
                /\ gl' = s
                /\ baseLayer' = [baseLayer EXCEPT ![s] = s]
                /\ forPending' = forPending \cup {s}
                /\ last' = [Run("requestSession:await", "none") EXCEPT
                                !.arg = s, !.dev = answer,
                                !.log = <<"requestSession">>]
       ELSE /\ answer \in SessionRejections
            /\ last' = [Run("requestSession", answer) EXCEPT
                            !.dev = answer,
                            !.log = <<"requestSession", "requestSession">>]
            /\ UNCHANGED <<session, canvas, gl, nextSession, sessionState,
                           baseLayer, forPending>>
    /\ UNCHANGED <<texture, config, contextAttributes, device, frameOfRef, renderViews,
                   _block, renderer, raf, listeners>>

\* requestSession(), lines 97-107, up to its await of the frame of
\* reference.  answer is what device.requestSession settles with: a new
\* session, or a rejection.  The canvas and the context made for session s
\* carry the number of s.  The log has the call made to the device.
requestSession(answer) ==
    /\ IF device = Undefined
       THEN /\ last' = Run("requestSession", "TypeError")
            /\ UNCHANGED <<session, canvas, gl, nextSession, sessionState,
                           baseLayer, forPending>>
       ELSE IF answer = "resolved"
       THEN /\ nextSession < MaxSessions
            /\ ~ImmersiveRunning
            /\ LET s == nextSession + 1 IN
                /\ nextSession' = s
                /\ sessionState' = [sessionState EXCEPT ![s] = "active"]
                /\ session' = s
                /\ canvas' = s
                /\ gl' = s
                /\ baseLayer' = [baseLayer EXCEPT ![s] = s]
                /\ forPending' = forPending \cup {s}
                /\ last' = [Run("requestSession:await", "none") EXCEPT
                                !.arg = s, !.dev = answer,
                                !.log = <<"requestSession">>]
       ELSE /\ answer \in SessionRejections
            /\ last' = [Run("requestSession", answer) EXCEPT
                            !.dev = answer, !.log = <<"requestSession">>]
            /\ UNCHANGED <<session, canvas, gl, nextSession, sessionState,
                           baseLayer, forPending>>
    /\ UNCHANGED <<texture, config, contextAttributes, device, frameOfRef, renderViews,
                   _block, renderer, raf, listeners>>

\* requestFrameOfReference of session s resolved: lines 107-111.  Both calls
\* go to this.session as it is now.
FrameOfReferenceResolve(s) ==
    /\ s \in forPending
    /\ forPending' = forPending \ {s}
    /\ frameOfRef' = s
    /\ IF session = Undefined
       THEN /\ last' = [Run("requestSession", "TypeError") EXCEPT !.arg = s]
            /\ UNCHANGED <<raf, listeners>>
       ELSE /\ raf' = RequestAnimationFrame(raf, session)
            /\ listeners' = [listeners EXCEPT ![session] = TRUE]
            /\ last' = [Run("requestSession", "none") EXCEPT
                            !.arg = s, !.log = <<"requestAnimationFrame", "addEventListener">>]
    /\ UNCHANGED <<texture, config, contextAttributes, device, session, canvas, gl,
                   renderViews, _block, renderer, nextSession, sessionState,
                   baseLayer>>

\* requestFrameOfReference of session s rejected: requestSession() rejects
\* with it at line 107; what lines 98-106 assigned stays.
FrameOfReferenceReject(s) ==
    /\ s \in forPending
    /\ forPending' = forPending \ {s}
    /\ last' = [Run("requestSession", "NotSupportedError") EXCEPT
                    !.arg = s, !.dev = "frameOfReference"]
    /\ UNCHANGED <<texture, config, contextAttributes, device, ctrl, renderer, platform>>

\* --------------------------------------------------------- endSession ----
\* onEndSession(): lines 118-123.
onEndSession ==
    /\ session' = Undefined
    /\ canvas' = Undefined
    /\ gl' = Undefined
    /\ frameOfRef' = Undefined

\* Session s ends: the platform dispatches 'end' to the listener that line
\* 111 registered on s, if any.
DispatchEnd(s) ==
    /\ sessionState' = [sessionState EXCEPT ![s] = "ended"]
    /\ IF listeners[s]
       THEN onEndSession
       ELSE UNCHANGED <<session, canvas, gl, frameOfRef>>

\* endSession() that takes the device out of the context attributes.
endSessionResetsAttributes ==
    /\ IF session = Undefined
       THEN /\ last' = Run("endSession", "TypeError")
            /\ UNCHANGED <<session, canvas, gl, frameOfRef, sessionState>>
       ELSE IF sessionState[session] # "active"
       THEN /\ last' = [Run("endSession", "InvalidStateError") EXCEPT !.arg = session]
            /\ UNCHANGED <<session, canvas, gl, frameOfRef, sessionState>>
       ELSE /\ DispatchEnd(session)
            /\ last' = [Run("endSession", "none") EXCEPT !.arg = session]
    /\ contextAttributes' = [contextAttributes EXCEPT !.compatibleXRDevice = Undefined]
    /\ UNCHANGED <<texture, config, device, renderViews, _block,
                   renderer, nextSession, baseLayer, raf, listeners, forPending>>

\* endSession(): lines 114-116.  Without a session the call throws; an
\* ended session rejects end(); a running session ends, and end() resolves.
endSession ==
    /\ IF session = Undefined
       THEN /\ last' = Run("endSession", "TypeError")
            /\ UNCHANGED <<session, canvas, gl, frameOfRef, sessionState>>
       ELSE IF sessionState[session] # "active"
       THEN /\ last' = [Run("endSession", "InvalidStateError") EXCEPT !.arg = session]
            /\ UNCHANGED <<session, canvas, gl, frameOfRef, sessionState>>
       ELSE /\ DispatchEnd(session)
            /\ last' = [Run("endSession", "none") EXCEPT !.arg = session]
    /\ UNCHANGED <<texture, config, contextAttributes, device, renderViews, _block,
                   renderer, nextSession, baseLayer, raf, listeners, forPending>>

\* The end of session s taking the device handle with it.
DeviceEndDropsDevice(s) ==
    /\ sessionState[s] = "active"
    /\ DispatchEnd(s)
    /\ device' = Undefined
    /\ last' = [Run("end", "none") EXCEPT !.arg = s]
    /\ UNCHANGED <<texture, config, contextAttributes, renderViews, _block,
                   renderer, nextSession, baseLayer, raf, listeners, forPending>>

\* The device ends session s by itself (headset removed, interrupt).
DeviceEnd(s) ==
    /\ sessionState[s] = "active"
    /\ DispatchEnd(s)
    /\ last' = [Run("end", "none") EXCEPT !.arg = s]
    /\ UNCHANGED <<texture, config, contextAttributes, device, renderViews, _block,
                   renderer, nextSession, baseLayer, raf, listeners, forPending>>

\* ---------------------------------------------------------- onXRFrame ----
\* XRWebGLLayer.getViewport(view) of the i-th view, when the layer has one.
GetViewport(i) == 200 + i

\* The slot of view i allocated anew on every frame.
SlotForFresh(pool, i) ==
    IF i > Len(pool) THEN Append(pool, NewRenderView(MaxId(pool) + 1))
    ELSE [pool EXCEPT ![i] = NewRenderView(MaxId(pool) + 1)]

\* The slot of view i allocated together with a spare one.
SlotForWithSpare(pool, i) ==
    IF i > Len(pool)
    THEN Append(Append(pool, NewRenderView(MaxId(pool) + 1)),
                NewRenderView(MaxId(pool) + 2))
    ELSE pool

\* Lines 137-139: the slot of view i, allocated when the pool has none.
SlotFor(pool, i) ==
    IF i > Len(pool) THEN Append(pool, NewRenderView(MaxId(pool) + 1)) ELSE pool

\* The loop that stops after the first view of the frame.
SetViewsFirstOnly(pool, i, n, pose, viewports) ==
    IF i > n \/ i > 1 THEN pool
    ELSE LET p == SlotFor(pool, i)
         IN [p EXCEPT ![i] = RenderViewSet(p[i], ProjectionMatrix(i),
                    GetViewMatrix(pose, i),
                    IF viewports[i] THEN GetViewport(i) ELSE Undefined)]

\* The loop that takes the views of the frame in reverse order: slot i gets
\* the values of view n + 1 - i.
RECURSIVE SetViewsReversed(_, _, _, _, _)
SetViewsReversed(pool, i, n, pose, viewports) ==
    IF i > n THEN pool
    ELSE LET p == SlotFor(pool, i)
             j == n + 1 - i
             q == [p EXCEPT ![i] = RenderViewSet(p[i], ProjectionMatrix(j),
                        GetViewMatrix(pose, j),
                        IF viewports[j] THEN GetViewport(j) ELSE Undefined)]
         IN SetViewsReversed(q, i + 1, n, pose, viewports)

\* Lines 135-145: the loop over frame.views, from view i on.  viewports[i]
\* tells whether the layer has a viewport for view i (null otherwise).
RECURSIVE SetViews(_, _, _, _, _)
SetViews(pool, i, n, pose, viewports) ==
    IF i > n THEN pool
    ELSE LET p == SlotFor(pool, i)
             q == [p EXCEPT ![i] = RenderViewSet(p[i], ProjectionMatrix(i),
                        GetViewMatrix(pose, i),
                        IF viewports[i] THEN GetViewport(i) ELSE Undefined)]
         IN SetViews(q, i + 1, n, pose, viewports)

\* Line 147: the array handed to renderer.frame, for a frame of n views.
FrameViews(pool, n) == pool

\* renderer.frame given the time stamp of the callback.
FrameTimeOfCallback(time) == time

\* Line 147: the elapsed time handed to renderer.frame.
FrameTime(time) == 0

\* onXRFrame without line 127: the callback that ran is not registered again.
NextFrameDropped(s) == [raf EXCEPT ![s] = @ - 1]

\* Line 127: the callbacks pending once the callback of session s has been
\* taken from the list and has registered the next one on this.session.
NextFrame(s) ==
    RequestAnimationFrame([raf EXCEPT ![s] = @ - 1], session)

\* n times "set".
RECURSIVE Sets(_)
Sets(n) == IF n = 0 THEN <<>> ELSE <<"set">> \o Sets(n - 1)

\* Lines 127-130: what the callback logs up to the pose query.
FrameProlog == <<"requestAnimationFrame", "getDevicePose">>

\* Line 127 with this.session undefined: the callback throws at once.
FrameWithoutSession(s) ==
    /\ raf' = [raf EXCEPT ![s] = @ - 1]
    /\ last' = [Run("onXRFrame", "TypeError") EXCEPT !.arg = s]
    /\ UNCHANGED renderViews

\* Lines 127-130 with this.frameOfRef undefined: getDevicePose throws.
FrameWithoutFrameOfRef(s) ==
    /\ raf' = NextFrame(s)
    /\ last' = [Run("onXRFrame", "TypeError") EXCEPT !.arg = s, !.log = FrameProlog]
    /\ UNCHANGED renderViews

\* onXRFrame handing the pool to the renderer although there is no pose.
FrameWithoutPoseRendered(s) ==
    /\ raf' = NextFrame(s)
    /\ last' = [Run("onXRFrame", "none") EXCEPT
                    !.arg = s, !.got = "null", !.log = FrameProlog \o <<"frame">>,
                    !.submitted = renderViews]
    /\ UNCHANGED renderViews

\* onXRFrame giving up the frame loop when there is no pose: the next
\* callback is not registered.
FrameWithoutPoseStops(s) ==
    /\ raf' = [raf EXCEPT ![s] = @ - 1]
    /\ last' = [Run("onXRFrame", "none") EXCEPT
                    !.arg = s, !.got = "null", !.log = <<"getDevicePose", "warn">>]
    /\ UNCHANGED renderViews

\* Lines 127-131 and 148-151: there is no pose.
FrameWithoutPose(s) ==
    /\ raf' = NextFrame(s)
    /\ last' = [Run("onXRFrame", "none") EXCEPT
                    !.arg = s, !.got = "null", !.log = FrameProlog \o <<"warn">>]
    /\ UNCHANGED renderViews

\* onXRFrame calling the renderer before it binds the framebuffer and
\* writes the slots.
FrameWithPoseSubmitsFirst(s, time, pose, n, viewports) ==
    /\ raf' = NextFrame(s)
    /\ renderViews' = SetViews(renderViews, 1, n, pose, viewports)
    /\ last' = [Run("onXRFrame", IF renderer = Undefined THEN "TypeError" ELSE "none")
                EXCEPT !.arg = s, !.got = "pose", !.pose = pose, !.views = n,
                       !.viewports = viewports, !.time = time,
                       !.log = FrameProlog
                               \o (IF renderer = Undefined THEN <<>>
                                   ELSE <<"frame", "bindFramebuffer">> \o Sets(n)),
                       !.submitted = IF renderer = Undefined THEN <<>>
                                     ELSE FrameViews(renderViews, n),
                       !.elapsed = IF renderer = Undefined THEN 0
                                   ELSE FrameTime(time)]

\* Lines 127-147: there is a pose.  Without a renderer line 147 throws.
FrameWithPose(s, time, pose, n, viewports) ==
    /\ raf' = NextFrame(s)
    /\ renderViews' = SetViews(renderViews, 1, n, pose, viewports)
    /\ last' = [Run("onXRFrame", IF renderer = Undefined THEN "TypeError" ELSE "none")
                EXCEPT !.arg = s, !.got = "pose", !.pose = pose, !.views = n,
                       !.viewports = viewports, !.time = time,
                       !.log = FrameProlog \o <<"bindFramebuffer">> \o Sets(n)
                               \o (IF renderer = Undefined THEN <<>> ELSE <<"frame">>),
                       !.submitted = IF renderer = Undefined THEN <<>>
                                     ELSE FrameViews(renderViews', n),
                       !.elapsed = IF renderer = Undefined THEN 0
                                   ELSE FrameTime(time)]

\* onXRFrame(time, frame): the platform runs a callback registered on
\* session s.  frame.getDevicePose yields pose (0: null), frame.views has n
\* views.  A callback that was registered on a session is still in the
\* platform's list when the session ends (nothing cancels it), and may run.
onXRFrame(s, time, pose, n, viewports) ==
    /\ raf[s] > 0
    /\ IF session = Undefined THEN FrameWithoutSession(s)
       ELSE IF frameOfRef = Undefined THEN FrameWithoutFrameOfRef(s)
       ELSE IF pose = Undefined THEN FrameWithoutPose(s)
       ELSE FrameWithPose(s, time, pose, n, viewports)
    /\ UNCHANGED <<texture, config, contextAttributes, device, session, canvas, gl,
                   frameOfRef, _block, renderer, nextSession, sessionState,
                   baseLayer, listeners, forPending>>

\* ---------------------------------------------------- the other members ----
\* block(): lines 157-159.
block ==
    /\ _block' = TRUE
    /\ last' = Run("block", "none")
    /\ UNCHANGED <<texture, config, contextAttributes, device, session, canvas, gl,
                   frameOfRef, renderViews, renderer, platform, forPending>>

\* get blocked(): lines 160-163.
blocked == _block

\* unblock() that leaves the flag set.
unblockKeepsBlocked ==
    /\ _block' = TRUE
    /\ last' = Run("unblock", "none")
    /\ UNCHANGED <<texture, config, contextAttributes, device, session, canvas, gl,
                   frameOfRef, renderViews, renderer, platform, forPending>>

\* unblock(): lines 164-167.
unblock ==
    /\ _block' = FALSE
    /\ last' = Run("unblock", "none")
    /\ UNCHANGED <<texture, config, contextAttributes, device, session, canvas, gl,
                   frameOfRef, renderViews, renderer, platform, forPending>>

\* set controllable(c): lines 168-170.
controllable ==
    /\ renderer' = 1
    /\ last' = Run("controllable", "none")
    /\ UNCHANGED <<texture, config, contextAttributes, device, ctrl, platform, forPending>>

\* update(force) that renders a frame of the pool when it is forced.
updateRenders(force) ==
    /\ last' = IF force /\ renderer # Undefined
               THEN [Run("update", "none") EXCEPT
                        !.log = <<"frame">>, !.submitted = renderViews]
               ELSE Run("update", "none")
    /\ UNCHANGED <<texture, config, contextAttributes, device, ctrl, renderer, platform,
                   forPending>>

\* update(force): lines 171-173.
update(force) ==
    /\ last' = Run("update", "none")
    /\ UNCHANGED <<texture, config, contextAttributes, device, ctrl, renderer, platform,
                   forPending>>

\* ------------------------------------------------------ specification ----
\* The number of views of a frame: an immersive session renders one view per
\* eye (some devices a single one); a session that is not immersive (a
\* 'magic window') renders the one view of its output canvas.
ViewCounts ==
    IF sessionCreationOptions.immersive THEN 1..MaxViews ELSE {1}

\* The frames the platform may deliver: the pose getDevicePose yields (0:
\* null), the number of views, and for each view whether the layer has a
\* viewport for it.  The viewports are only asked for when there is a pose.
Frames ==
    { [pose |-> Undefined, views |-> n, viewports |-> [i \in 1..n |-> TRUE]] :
        n \in ViewCounts }
    \cup UNION { [pose : Poses, views : {n}, viewports : [1..n -> BOOLEAN]] :
                   n \in ViewCounts }

\* The calls of the application and the answers of the platform that make
\* the life cycle of the sessions.
Lifecycle ==
    \/ \E answer \in {"resolved", "rejected"} : initialize(answer)
    \/ \E answer \in {"resolved"} \cup SessionRejections : requestSession(answer)
    \/ \E s \in Sessions : FrameOfReferenceResolve(s)
    \/ \E s \in Sessions : FrameOfReferenceReject(s)
    \/ endSession
    \/ \E s \in Sessions : DeviceEnd(s)
    \/ block
    \/ unblock
    \/ controllable
    \/ \E force \in BOOLEAN : update(force)

\* The controller with its frame loop.
Next ==
    \/ Lifecycle
    \/ \E s \in Sessions, time \in Times, frame \in Frames :
          onXRFrame(s, time, frame.pose, frame.views, frame.viewports)

Spec == Init /\ [][Next]_vars

\* The platform delivers a frame whose pose resolves to a callback that is
\* registered.
PosedFrame ==
    \E s \in Sessions, time \in Times, frame \in Frames :
        /\ frame.pose # Undefined
        /\ onXRFrame(s, time, frame.pose, frame.views, frame.viewports)

\* The controller on a platform that keeps delivering the registered frame
\* callbacks and whose tracking comes back: as long as a callback is
\* registered, a frame with a pose is delivered in the end.
LiveSpec == Spec /\ WF_vars(PosedFrame)

\* The controller with the capability probe.  supportsSession() is a query:
\* it reads the device and the options and writes nothing, so that it is
\* checked here, beside the life cycle, and left out of the frame loop.
ProbeNext ==
    \/ Lifecycle
    \/ \E answer \in {"resolved", "rejected"} : supportsSession(answer)

ProbeSpec == Init /\ [][ProbeNext]_vars

\* ============================================================ Texture2 ====
\* Texture2 (source/texture2.ts) with the byte sizes of
\* source/formatbytesizes.ts.  The texture is bound when its image is
\* specified: with bind set the members see to it, without it the caller.

\* The fields of the controller and of its platform but last.
controller == <<config, contextAttributes, device, ctrl, renderer, platform,
                forPending>>

\* byteSizeOfFormat(context, format), formatbytesizes.ts lines 15-158: the
\* size the switches return for the format, and whether an assertion fails
\* on the way.  The first case that equals the format decides.
byteSizeOfFormat(format) ==
    IF format \in {UNSIGNED_BYTE, FLOAT, HALF_FLOAT}
    THEN [size |-> 0, asserts |-> TRUE]
    ELSE IF format \in {RGB, RGB8} THEN [size |-> 3, asserts |-> FALSE]
    ELSE IF format \in {DEPTH_STENCIL, RGBA, RGBA8}
    THEN [size |-> 4, asserts |-> FALSE]
    ELSE IF format = RGBA16F THEN [size |-> 8, asserts |-> FALSE]
    ELSE [size |-> 0, asserts |-> TRUE]

\* Lines 176-186 of texture2.ts: the bytes of an image of the given extent,
\* internal format and type.
DataBytes(width, height, internalFormat, type) ==
    LET bytes == width * height * byteSizeOfFormat(internalFormat).size
    IN  IF type = HALF_FLOAT /\ internalFormat # RGBA16F THEN bytes * 2
        ELSE IF type = FLOAT /\ internalFormat # RGBA16F THEN bytes * 4
        ELSE bytes

\* Initializable.assert_initialized(): the member throws on an object that
\* is not initialized.
assertInitialized(op) ==
    /\ ~assert(initialized)
    /\ last' = Run(op, "AssertionError")
    /\ UNCHANGED texture

\* initialize(width, height, internalFormat, format, type) of the object,
\* which runs create(): lines 54-84.
create(width, height, internalFormat, format, type) ==
    /\ ~initialized
    /\ assert(width > 0 /\ height > 0)
    /\ initialized' = TRUE
    /\ _width' = width
    /\ _height' = height
    /\ _internalFormat' = internalFormat
    /\ _format' = format
    /\ _type' = type
    /\ image' = FALSE
    /\ allocated' = 0
    /\ last' = Run("Texture2.create", "none")
    /\ UNCHANGED <<loading, controller>>

\* uninitialize() of the object, which runs delete(): lines 89-103.  The
\* allocation register is not told.
delete ==
    /\ \/ assertInitialized("Texture2.delete")
       \/ /\ initialized
          /\ initialized' = FALSE
          /\ _internalFormat' = 0
          /\ _format' = 0
          /\ _type' = 0
          /\ _width' = 0
          /\ _height' = 0
          /\ image' = FALSE
          /\ last' = Run("Texture2.delete", "none")
          /\ UNCHANGED <<allocated, loading>>
    /\ UNCHANGED controller

\* bind(unit): lines 108-115.
bind ==
    /\ \/ assertInitialized("Texture2.bind")
       \/ initialized /\ last' = Run("Texture2.bind", "none") /\ UNCHANGED texture
    /\ UNCHANGED controller

\* unbind(unit): lines 120-127.
unbind ==
    /\ \/ assertInitialized("Texture2.unbind")
       \/ initialized /\ last' = Run("Texture2.unbind", "none") /\ UNCHANGED texture
    /\ UNCHANGED controller

\* filter(mag, min, bind, unbind): lines 198-209.
filter ==
    /\ \/ assertInitialized("Texture2.filter")
       \/ initialized /\ last' = Run("Texture2.filter", "none") /\ UNCHANGED texture
    /\ UNCHANGED controller

\* wrap(wrap_s, wrap_t, bind, unbind): lines 219-231.
wrap ==
    /\ \/ assertInitialized("Texture2.wrap")
       \/ initialized /\ last' = Run("Texture2.wrap", "none") /\ UNCHANGED texture
    /\ UNCHANGED controller

\* Lines 176-178: data() fails on the assertion of byteSizeOfFormat when it
\* is given image data for an internal format without a known size.
DataFails(texels, internalFormat) ==
    /\ texels # Undefined
    /\ ~assert(~byteSizeOfFormat(internalFormat).asserts)

\* data(data, bind, unbind): lines 160-189.  texels is the image data, or
\* undefined.  The image is specified first (line 170), the bytes are
\* registered last (line 188).
data(texels) ==
    /\ \/ assertInitialized("Texture2.data")
       \/ /\ initialized
          /\ image' = (texels # Undefined)
          /\ IF DataFails(texels, _internalFormat)
             THEN /\ last' = [Run("Texture2.data", "AssertionError") EXCEPT !.arg = texels]
                  /\ UNCHANGED allocated
             ELSE /\ last' = [Run("Texture2.data", "none") EXCEPT !.arg = texels]
                  /\ allocated' = IF texels = Undefined THEN 0
                                  ELSE DataBytes(_width, _height, _internalFormat, _type)
          /\ UNCHANGED <<initialized, _width, _height, _internalFormat, _format,
                         _type, loading>>
    /\ UNCHANGED controller

\* reformat(internalFormat, format, type, bind, unbind): lines 243-263.
\* format and type may be left out (undefined).
reformat(internalFormat, format, type) ==
    /\ \/ assertInitialized("Texture2.reformat")
       \/ /\ initialized
          /\ IF /\ internalFormat = _internalFormat
                /\ (format = Undefined \/ format = _format)
                /\ (type = Undefined \/ type = _type)
             THEN /\ last' = Run("Texture2.reformat", "none")
                  /\ UNCHANGED texture
             ELSE /\ assert(internalFormat # Undefined)
                  /\ _internalFormat' = internalFormat
                  /\ _format' = IF format # Undefined THEN format ELSE _format
                  /\ _type' = IF type # Undefined THEN type ELSE _type
                  /\ image' = FALSE
                  /\ allocated' = 0
                  /\ last' = [Run("Texture2.reformat", "none") EXCEPT !.ret = "changed"]
                  /\ UNCHANGED <<initialized, _width, _height, loading>>
    /\ UNCHANGED controller

\* resize() that falls back to the internal format RGBA8.
resizeResetsInternalFormat(width, height) ==
    /\ \/ assertInitialized("Texture2.resize")
       \/ /\ initialized
          /\ IF width = _width /\ height = _height
             THEN /\ last' = Run("Texture2.resize", "none")
                  /\ UNCHANGED texture
             ELSE /\ _width' = width
                  /\ _height' = height
                  /\ _internalFormat' = RGBA8
                  /\ image' = FALSE
                  /\ allocated' = 0
                  /\ last' = [Run("Texture2.resize", "none") EXCEPT !.ret = "changed"]
                  /\ UNCHANGED <<initialized, _format, _type, loading>>
    /\ UNCHANGED controller

\* resize() that leaves the registered bytes as they are.
resizeKeepsBytes(width, height) ==
    /\ \/ assertInitialized("Texture2.resize")
       \/ /\ initialized
          /\ IF width = _width /\ height = _height
             THEN /\ last' = Run("Texture2.resize", "none")
                  /\ UNCHANGED texture
             ELSE /\ _width' = width
                  /\ _height' = height
                  /\ image' = FALSE
                  /\ last' = [Run("Texture2.resize", "none") EXCEPT !.ret = "changed"]
                  /\ UNCHANGED <<initialized, _internalFormat, _format, _type,
                                 allocated, loading>>
    /\ UNCHANGED controller

\* resize(width, height, bind, unbind): lines 272-281.
resize(width, height) ==
    /\ \/ assertInitialized("Texture2.resize")
       \/ /\ initialized
          /\ IF width = _width /\ height = _height
             THEN /\ last' = Run("Texture2.resize", "none")
                  /\ UNCHANGED texture
             ELSE /\ _width' = width
                  /\ _height' = height
                  /\ image' = FALSE
                  /\ allocated' = 0
                  /\ last' = [Run("Texture2.resize", "none") EXCEPT !.ret = "changed"]
                  /\ UNCHANGED <<initialized, _internalFormat, _format, _type, loading>>
    /\ UNCHANGED controller

\* load(uri, crossOrigin): lines 135-152, up to the request of the image.
load ==
    /\ loading < MaxLoads
    /\ \/ assertInitialized("Texture2.load")
       \/ /\ initialized
          /\ loading' = loading + 1
          /\ last' = Run("Texture2.load", "none")
          /\ UNCHANGED <<initialized, _width, _height, _internalFormat, _format,
                         _type, allocated, image>>
    /\ UNCHANGED controller

\* image.onload of load(), lines 141-145: resize to the image, then data.
onload(width, height) ==
    /\ loading > 0
    /\ loading' = loading - 1
    /\ IF ~assert(initialized)
       THEN /\ last' = Run("Texture2.onload", "AssertionError")
            /\ UNCHANGED <<initialized, _width, _height, _internalFormat, _format,
                           _type, allocated, image>>
       ELSE /\ _width' = width
            /\ _height' = height
            /\ image' = TRUE
            /\ IF DataFails(1, _internalFormat)
               THEN /\ last' = [Run("Texture2.onload", "AssertionError") EXCEPT !.arg = 1]
                    /\ allocated' = IF width = _width /\ height = _height
                                    THEN allocated ELSE 0
               ELSE /\ last' = [Run("Texture2.onload", "none") EXCEPT !.arg = 1]
                    /\ allocated' = DataBytes(width, height, _internalFormat, _type)
            /\ UNCHANGED <<initialized, _internalFormat, _format, _type>>
    /\ UNCHANGED controller

\* image.onerror of load(), line 139: the promise is rejected.
onerror ==
    /\ loading > 0
    /\ loading' = loading - 1
    /\ last' = Run("Texture2.load", "rejected")
    /\ UNCHANGED <<initialized, _width, _height, _internalFormat, _format,
                   _type, allocated, image>>
    /\ UNCHANGED controller

\* get bytes(): lines 287-290.
bytes == allocated

\* get internalFormat(): lines 295-298.
internalFormat == _internalFormat

\* The texture alone, beside a controller that is left as constructed.
TextureInit ==
    /\ Init
    /\ ~hostXR
    /\ ~sessionCreationOptions.immersive

TextureNext ==
    \/ \E width \in Extents, height \in Extents, f \in InternalFormats,
          format \in Formats, type \in Types :
            create(width, height, f, format, type)
    \/ delete
    \/ bind
    \/ unbind
    \/ filter
    \/ wrap
    \/ \E texels \in {Undefined, 1} : data(texels)
    \/ \E f \in InternalFormats, format \in {Undefined} \cup Formats,
          type \in {Undefined} \cup Types : reformat(f, format, type)
    \/ \E width \in Extents, height \in Extents : resize(width, height)
    \/ load
    \/ \E width \in Extents, height \in Extents : onload(width, height)
    \/ onerror

TextureSpec == TextureInit /\ [][TextureNext]_vars

\* ================================================ unnamed/part_000 ====
\* The XRController of unnamed/part_000, an earlier state of the class.  It
\* has no canvas field, no pool of render views and no block flag: these
\* variables stay as constructed.  The callbacks it registers with a session
\* are arrow functions of its own, counted in raf like the others.

\* initialize(): part_000 lines 54-58.
PlaygroundInitialize(answer) ==
    /\ IF ~assert(supportsXR)
       THEN /\ last' = Run("initialize", "AssertionError")
            /\ UNCHANGED <<device, contextAttributes>>
       ELSE IF answer = "resolved"
       THEN /\ device' = 1
            /\ contextAttributes' = [contextAttributes EXCEPT !.compatibleXRDevice = 1]
            /\ last' = Run("initialize", "none")
       ELSE /\ last' = [Run("initialize", "NotFoundError") EXCEPT !.dev = answer]
            /\ UNCHANGED <<device, contextAttributes>>
    /\ UNCHANGED <<texture, config, ctrl, renderer, platform, forPending>>

\* requestSession(), part_000 lines 82-91, up to its await of the frame of
\* reference.  The canvas is a local of the call (line 87).
PlaygroundRequestSession(answer) ==
    /\ IF device = Undefined
       THEN /\ last' = Run("requestSession", "TypeError")
            /\ UNCHANGED <<session, gl, nextSession, sessionState,
                           baseLayer, forPending>>
       ELSE IF answer = "resolved"
       THEN /\ nextSession < MaxSessions
            /\ ~ImmersiveRunning
            /\ LET s == nextSession + 1 IN
                /\ nextSession' = s
                /\ sessionState' = [sessionState EXCEPT ![s] = "active"]
                /\ session' = s
                /\ gl' = s
                /\ baseLayer' = [baseLayer EXCEPT ![s] = s]
                /\ forPending' = forPending \cup {s}
                /\ last' = [Run("requestSession:await", "none") EXCEPT
                                !.arg = s, !.dev = answer,
                                !.log = <<"requestSession">>]
       ELSE /\ answer \in SessionRejections
            /\ last' = [Run("requestSession", answer) EXCEPT
                            !.dev = answer, !.log = <<"requestSession">>]
            /\ UNCHANGED <<session, gl, nextSession, sessionState,
                           baseLayer, forPending>>
    /\ UNCHANGED <<texture, config, contextAttributes, device, canvas, frameOfRef,
                   renderViews, _block, renderer, raf, listeners>>

\* requestFrameOfReference of session s resolved: part_000 lines 91-95.
\* Line 93 registers the arrow function () => this.onXRFrame as the frame
\* callback.
PlaygroundFrameOfReferenceResolve(s) ==
    /\ s \in forPending
    /\ forPending' = forPending \ {s}
    /\ frameOfRef' = s
    /\ IF session = Undefined
       THEN /\ last' = [Run("requestSession", "TypeError") EXCEPT !.arg = s]
            /\ UNCHANGED <<raf, listeners>>
       ELSE /\ raf' = RequestAnimationFrame(raf, session)
            /\ listeners' = [listeners EXCEPT ![session] = TRUE]
            /\ last' = [Run("requestSession", "none") EXCEPT
                            !.arg = s, !.log = <<"requestAnimationFrame", "addEventListener">>]
    /\ UNCHANGED <<texture, config, contextAttributes, device, session, canvas, gl,
                   renderViews, _block, renderer, nextSession, sessionState,
                   baseLayer>>

\* requestFrameOfReference of session s rejected: requestSession() rejects
\* with it at part_000 line 91.
PlaygroundFrameOfReferenceReject(s) ==
    /\ s \in forPending
    /\ forPending' = forPending \ {s}
    /\ last' = [Run("requestSession", "NotSupportedError") EXCEPT
                    !.arg = s, !.dev = "frameOfReference"]
    /\ UNCHANGED <<texture, config, contextAttributes, device, ctrl, renderer, platform>>

\* onEndSession(): part_000 lines 102-106.
PlaygroundOnEndSession ==
    /\ session' = Undefined
    /\ gl' = Undefined
    /\ frameOfRef' = Undefined

\* Session s ends: the platform dispatches 'end' to the listener that
\* part_000 line 95 registered on s, if any.
PlaygroundDispatchEnd(s) ==
    /\ sessionState' = [sessionState EXCEPT ![s] = "ended"]
    /\ IF listeners[s]
       THEN PlaygroundOnEndSession
       ELSE UNCHANGED <<session, gl, frameOfRef>>

\* endSession(): part_000 lines 98-100.
PlaygroundEndSession ==
    /\ IF session = Undefined
       THEN /\ last' = Run("endSession", "TypeError")
            /\ UNCHANGED <<session, gl, frameOfRef, sessionState>>
       ELSE IF sessionState[session] # "active"
       THEN /\ last' = [Run("endSession", "InvalidStateError") EXCEPT !.arg = session]
            /\ UNCHANGED <<session, gl, frameOfRef, sessionState>>
       ELSE /\ PlaygroundDispatchEnd(session)
            /\ last' = [Run("endSession", "none") EXCEPT !.arg = session]
    /\ UNCHANGED <<texture, config, contextAttributes, device, canvas, renderViews,
                   _block, renderer, nextSession, baseLayer, raf, listeners,
                   forPending>>

\* The device ends session s by itself, under the controller of part_000.
PlaygroundDeviceEnd(s) ==
    /\ sessionState[s] = "active"
    /\ PlaygroundDispatchEnd(s)
    /\ last' = [Run("end", "none") EXCEPT !.arg = s]
    /\ UNCHANGED <<texture, config, contextAttributes, device, canvas, renderViews,
                   _block, renderer, nextSession, baseLayer, raf, listeners,
                   forPending>>

\* set controllable(c): part_000 lines 142-144.
PlaygroundControllable ==
    /\ renderer' = 1
    /\ last' = Run("controllable", "none")
    /\ UNCHANGED <<texture, config, contextAttributes, device, ctrl, platform, forPending>>

\* The platform runs a callback registered on session s (part_000 lines 93
\* and 109), with a time stamp and a frame whose getDevicePose would yield
\* pose (0: null).  The callback is () => this.onXRFrame: it reads the
\* method and returns it, and calls nothing.
PlaygroundFrameCallback(s, time, pose) ==
    /\ raf[s] > 0
    /\ raf' = [raf EXCEPT ![s] = @ - 1]
    /\ last' = [Run("callback", "none") EXCEPT
                    !.arg = s, !.time = time, !.pose = pose, !.ret = "onXRFrame"]
    /\ UNCHANGED <<texture, config, contextAttributes, device, ctrl, renderer,
                   nextSession, sessionState, baseLayer, listeners, forPending>>

PlaygroundNext ==
    \/ \E answer \in {"resolved", "rejected"} : PlaygroundInitialize(answer)
    \/ \E answer \in {"resolved"} \cup SessionRejections :
          PlaygroundRequestSession(answer)
    \/ \E s \in Sessions : PlaygroundFrameOfReferenceResolve(s)
    \/ \E s \in Sessions : PlaygroundFrameOfReferenceReject(s)
    \/ PlaygroundEndSession
    \/ \E s \in Sessions : PlaygroundDeviceEnd(s)
    \/ PlaygroundControllable
    \/ \E s \in Sessions, time \in Times, pose \in {Undefined} \cup Poses :
          PlaygroundFrameCallback(s, time, pose)

PlaygroundSpec == Init /\ [][PlaygroundNext]_vars

\* ============================================================ claims ====
\* The renderer's frame() was called by the handler that ran last.
SinkInvoked == \E i \in DOMAIN last.log : last.log[i] = "frame"

\* The four session-scoped fields are cleared.
Cleared ==
    /\ session = Undefined
    /\ canvas = Undefined
    /\ gl = Undefined
    /\ frameOfRef = Undefined

\* C1: on an initialized controller supportsSession() returns false when the
\* device's supportsSession rejects and true when it resolves, and raises no
\* error in either case.
C1_SupportsSessionIsBoolean ==
    (last.op = "supportsSession" /\ last.dev # "none") =>
        /\ last.err = "none"
        /\ last.dev = "rejected" => last.ret = "false"
        /\ last.dev = "resolved" => last.ret = "true"

\* C1 witness: the device rejected the probe of an immersive configuration
\* and supportsSession() returned false.
C1_Witness ==
    /\ last.op = "supportsSession"
    /\ last.dev = "rejected"
    /\ last.ret = "false"
    /\ sessionCreationOptions.immersive

\* C2: after a session has been destroyed, by endSession() or by the
\* device's end notification, session, canvas, gl and frameOfRef are all
\* undefined.
C2_DestroyedIsCleared ==
    (last.op \in {"endSession", "end"} /\ last.err = "none") => Cleared

\* C3: endSession() on a controller whose session has already ended raises
\* no error.
C3_EndSessionIsIdempotent ==
    ( /\ last.op = "endSession"
      /\ session = Undefined
      /\ \E s \in Sessions : sessionState[s] = "ended"
      /\ \A s \in Sessions : sessionState[s] # "active" ) => last.err = "none"

\* C4: when requestSession() fails after the device handed out a session,
\* the controller retains nothing of that session: session, canvas, gl and
\* frameOfRef do not refer to it and no frame callback is registered on it.
\* (When the device rejects the request itself, the call has assigned
\* nothing.)
C4_FailedRequestLeavesNothing ==
    (last.op = "requestSession" /\ last.err # "none" /\ last.arg # 0) =>
        /\ session # last.arg
        /\ canvas # last.arg
        /\ gl # last.arg
        /\ frameOfRef # last.arg
        /\ raf[last.arg] = 0

\* C5: the array handed to the renderer on a frame of N views has exactly
\* the N entries written on this frame.
C5_SubmitsTheFilledSlice ==
    (last.op = "onXRFrame" /\ SinkInvoked) => Len(last.submitted) = last.views

\* C6: a frame callback that gets no pose does not call the renderer, raises
\* no error and leaves session, canvas, gl, frameOfRef, the pool of render
\* views and the block flag as they were.
C6_NoPoseFrameIsSkipped ==
    [][ (last'.op = "onXRFrame" /\ last'.got = "null") =>
            /\ last'.err = "none"
            /\ \A i \in DOMAIN last'.log : last'.log[i] # "frame"
            /\ last'.submitted = <<>>
            /\ UNCHANGED <<session, canvas, gl, frameOfRef, renderViews, _block>>
      ]_vars

\* C6 witness: a frame without a pose has run on a controller that holds a
\* session and whose pool holds the views of an earlier frame.
C6_Witness ==
    /\ last.op = "onXRFrame"
    /\ last.got = "null"
    /\ session # Undefined
    /\ Len(renderViews) = MaxViews
    /\ renderViews[1].viewMatrix # Undefined

\* C7: a frame callback that runs while the controller's session is active
\* registers exactly one callback for the next frame, as the first thing it
\* does, whatever the pose query then yields.
C7_RegistersNextFrameFirst ==
    [][ (last'.op = "onXRFrame" /\ session # Undefined
            /\ sessionState[session] = "active") =>
            /\ raf' = [[raf EXCEPT ![last'.arg] = @ - 1] EXCEPT ![session] = @ + 1]
            /\ last'.log # <<>>
            /\ last'.log[1] = "requestAnimationFrame"
            /\ Cardinality({i \in DOMAIN last'.log :
                              last'.log[i] = "requestAnimationFrame"}) = 1
      ]_vars

\* C7 witness: a frame without a pose has run during an active session and
\* the next callback is pending.
C7_Witness ==
    /\ last.op = "onXRFrame"
    /\ last.got = "null"
    /\ session # Undefined
    /\ sessionState[session] = "active"
    /\ raf[session] > 0

\* C8: a frame callback that runs after the session has ended and its fields
\* were cleared raises no error, registers no callback and does not call the
\* renderer.
C8_LateFrameIsNoOp ==
    (last.op = "onXRFrame" /\ session = Undefined) =>
        /\ last.err = "none"
        /\ last.log = <<>>

\* C9: at most one frame callback of the controller is pending on a session.
C9_OneCallbackPending ==
    \A s \in Sessions : raf[s] <= 1

\* C10: when requestSession() goes on with a session the device handed out,
\* session, canvas, gl and frameOfRef were all undefined: no session that is
\* still held is replaced.
C10_RequestOnlyWhenCleared ==
    [][ last'.op = "requestSession:await" => Cleared ]_vars

\* C11: when requestSession() has succeeded the controller holds a session,
\* a canvas, a context and a frame of reference, the session's baseLayer is
\* bound to that context, exactly one frame callback is registered on the
\* session and the session has the controller's end listener.
C11_SuccessfulRequestIsComplete ==
    (last.op = "requestSession" /\ last.err = "none") =>
        /\ session # Undefined
        /\ canvas # Undefined
        /\ gl # Undefined
        /\ frameOfRef # Undefined
        /\ baseLayer[session] = gl
        /\ raf[session] = 1
        /\ listeners[session]

\* C12: a frame callback is registered on a session only once the frame of
\* reference of that session has been resolved, and no frame callback runs
\* on a controller that holds a session but no frame of reference.
C12_FrameOfRefBeforeFrames ==
    /\ \A s \in Sessions : raf[s] > 0 => s \notin forPending
    /\ (last.op = "onXRFrame" /\ session # Undefined) => frameOfRef # Undefined

\* C13: endSession() raises no error and leaves session, canvas, gl and
\* frameOfRef undefined, whatever state it is called in and whatever the
\* session's end() answers.
C13_EndSessionNeverFails ==
    last.op = "endSession" => (last.err = "none" /\ Cleared)

\* C14: no frame callback of the controller is registered on a session that
\* has ended.
C14_NoCallbackAfterEnd ==
    \A s \in Sessions : sessionState[s] = "ended" => raf[s] = 0

\* C15: a frame callback that runs while blocked is true does not call the
\* renderer.
C15_BlockedSubmitsNothing ==
    (last.op = "onXRFrame" /\ blocked) => ~SinkInvoked

\* C16: blocked is false on a new controller; every block() leaves it true,
\* every unblock() leaves it false, and no other operation changes it: it is
\* true exactly when the most recent of these calls was block().
C16_BlockedFollowsLastCall ==
    /\ ~blocked
    /\ [][ /\ block => blocked'
           /\ unblock => ~blocked'
           /\ ~(block \/ unblock) => (blocked' = blocked) ]_vars

\* C16 witness: block() has been called on a controller that holds a
\* session, and blocked is true.
C16_Witness ==
    /\ blocked
    /\ last.op = "block"
    /\ session # Undefined
    /\ frameOfRef # Undefined

\* C17: after a frame callback that got a pose and N views, the pool of
\* render views has at least N entries, whatever the view counts of the
\* frames before were.
C17_PoolCoversTheViews ==
    (last.op = "onXRFrame" /\ last.got = "pose") => Len(renderViews) >= last.views

\* C17 witness: a frame with a pose and as many views as there are eyes has
\* run, on a pool that started with one entry.
C17_Witness ==
    /\ last.op = "onXRFrame"
    /\ last.got = "pose"
    /\ last.views = MaxViews
    /\ Len(renderViews) = MaxViews

\* C18: on a frame with a pose and N views that reaches the renderer, entry
\* i of the submitted array carries, for every i of the N views, the
\* projection matrix of view i, the view matrix the pose yields for view i
\* and what the layer yields as viewport of view i.
C18_SlotsFollowViewOrder ==
    (last.op = "onXRFrame" /\ SinkInvoked) =>
        /\ Len(last.submitted) >= last.views
        /\ \A i \in 1..last.views :
              /\ last.submitted[i].projectionMatrix = ProjectionMatrix(i)
              /\ last.submitted[i].viewMatrix = GetViewMatrix(last.pose, i)
              /\ last.submitted[i].viewport =
                    (IF last.viewports[i] THEN GetViewport(i) ELSE Undefined)

\* C18 witness: a frame of two views has been submitted whose first view has
\* no viewport and whose second has one.
C18_Witness ==
    /\ last.op = "onXRFrame"
    /\ SinkInvoked
    /\ last.views = MaxViews
    /\ ~last.viewports[1]
    /\ last.viewports[MaxViews]
    /\ last.submitted[MaxViews].viewMatrix = GetViewMatrix(last.pose, MaxViews)

\* The handler that ran last called the renderer's frame() exactly once, as
\* the last of its calls, after it had bound the framebuffer and written a
\* slot for each of the views of the frame.
SinkOnceAfterViews ==
    /\ last.err = "none"
    /\ Cardinality({i \in DOMAIN last.log : last.log[i] = "frame"}) = 1
    /\ last.log[Len(last.log)] = "frame"
    /\ \E b \in DOMAIN last.log :
          /\ last.log[b] = "bindFramebuffer"
          /\ Cardinality({i \in DOMAIN last.log :
                            i > b /\ last.log[i] = "set"}) = last.views

\* C19 as stated: on every frame callback that gets a pose the renderer's
\* frame() is called exactly once, after the framebuffer has been bound and
\* all N slots have been written.
C19_EveryPosedFrameIsSubmitted ==
    (last.op = "onXRFrame" /\ last.got = "pose") => SinkOnceAfterViews

\* C19: on every frame callback that gets a pose while a renderer is
\* assigned to the controller, the renderer's frame() is called exactly
\* once, after the framebuffer has been bound and all N slots have been
\* written.
C19_PosedFrameIsSubmittedOnce ==
    (last.op = "onXRFrame" /\ last.got = "pose" /\ renderer # Undefined) =>
        SinkOnceAfterViews

\* C19 witness: a frame of two views has been submitted to the renderer.
C19_Witness ==
    /\ last.op = "onXRFrame"
    /\ last.got = "pose"
    /\ renderer # Undefined
    /\ last.views = MaxViews
    /\ Len(last.submitted) = MaxViews
    /\ last.log[Len(last.log)] = "frame"

\* C20: initialize() raises an error when the host has no XR entry point and
\* when the device request is rejected, and leaves the device as it was:
\* undefined on a controller that was not initialized before.  While the
\* device is undefined no session has been handed to the controller.
C20_FailedInitializeLeavesNoDevice ==
    /\ [][ \A answer \in {"resolved", "rejected"} :
             (initialize(answer) /\ (~supportsXR \/ answer = "rejected")) =>
                 /\ last'.op = "initialize"
                 /\ last'.err # "none"
                 /\ device' = device ]_vars
    /\ [](~supportsXR => device = Undefined)
    /\ [](device = Undefined => (nextSession = 0 /\ session = Undefined))

\* C20 witness: the device request was rejected on a host that has XR, and
\* the controller has no device.
C20_Witness ==
    /\ last.op = "initialize"
    /\ last.err = "NotFoundError"
    /\ supportsXR
    /\ device = Undefined

\* C21: supportsSession() and requestSession() on a controller whose
\* initialize() has not succeeded (it has no device) do not reach the
\* device, raise an error and change no field of the controller.
C21_NoDeviceCallBeforeInitialize ==
    [][ ( /\ device = Undefined
          /\ last'.op \in {"supportsSession", "requestSession",
                            "requestSession:await"} ) =>
            /\ last'.err # "none"
            /\ last'.dev = "none"
            /\ UNCHANGED <<device, config, contextAttributes,
                           session, canvas, gl, frameOfRef, renderViews, _block,
                           renderer>>
            /\ UNCHANGED <<nextSession, sessionState, baseLayer, raf, listeners>>
      ]_vars

\* C21 witness: supportsSession() was called on a host with XR before any
\* initialize() succeeded, and failed on its assertion.
C21_Witness ==
    /\ last.op = "supportsSession"
    /\ last.err = "AssertionError"
    /\ supportsXR
    /\ device = Undefined
    /\ nextSession = 0

\* C22: when the device rejects the session request, requestSession()
\* rejects with the error the device gave, it has called
\* device.requestSession exactly once, and no session has been created for
\* the controller.
C22_RejectionIsPassedOn ==
    [][ ( /\ last'.op = "requestSession"
          /\ last'.dev \in {"NotSupportedError", "InvalidStateError",
                             "SecurityError"} ) =>
            /\ last'.err = last'.dev
            /\ last'.log = <<"requestSession">>
            /\ UNCHANGED <<nextSession, sessionState, session, canvas, gl,
                           frameOfRef, raf, listeners, forPending>>
      ]_vars

\* C22 witness: a second immersive session was requested while the first
\* was running, and requestSession() failed with the device's
\* InvalidStateError.
C22_Witness ==
    /\ last.op = "requestSession"
    /\ last.dev = "InvalidStateError"
    /\ last.err = "InvalidStateError"
    /\ session # Undefined
    /\ sessionState[session] = "active"

\* C23: once the controller has a device, no operation other than
\* initialize() changes or clears it: requestSession(), endSession(), the
\* end of a session and the frame callbacks leave it as it is, so that a new
\* session can be requested after one has ended.
C23_DeviceOutlivesSessions ==
    [][ ( /\ device # Undefined
          /\ ~(\E answer \in {"resolved", "rejected"} : initialize(answer)) ) =>
            device' = device ]_vars

\* C23 witness: after the first session ended the device handed out a
\* second one, which the controller holds with all of its parts.
C23_Witness ==
    /\ device # Undefined
    /\ sessionState[1] = "ended"
    /\ session = 2
    /\ sessionState[2] = "active"
    /\ frameOfRef = 2
    /\ last.op = "requestSession"
    /\ last.err = "none"

\* C24: a slot of the pool, once allocated, stays the same record: no step
\* removes it or puts a newly allocated record in its place.  When the pool
\* grows, the slots it had keep their records.
C24_SlotsAreReused ==
    [][ \A i \in 1..Len(renderViews) :
            /\ i <= Len(renderViews')
            /\ renderViews'[i].id = renderViews[i].id ]_vars

\* C24 witness: the pool has grown from one slot to two on a frame of two
\* views; the first slot is the record the controller was constructed with
\* and carries the values of this frame's first view.
C24_Witness ==
    /\ last.op = "onXRFrame"
    /\ last.got = "pose"
    /\ last.views = 2
    /\ Len(renderViews) = 2
    /\ renderViews[1].id = 1
    /\ renderViews[2].id = 2
    /\ renderViews[1].viewMatrix = GetViewMatrix(last.pose, 1)

\* C25: the length of the pool of render views never decreases, whatever
\* the operation (the end of a session and a new session included); it
\* changes only on a frame callback that got a pose and more views than the
\* pool had slots, and then becomes the number of views.
C25_PoolOnlyGrowsToTheViews ==
    [][ /\ Len(renderViews') >= Len(renderViews)
        /\ Len(renderViews') # Len(renderViews) =>
              /\ last'.op = "onXRFrame"
              /\ last'.got = "pose"
              /\ last'.views > Len(renderViews)
              /\ Len(renderViews') = last'.views ]_vars

\* C25 witness: the pool grew to two slots during the first session and
\* still has them while the controller holds its second session.
C25_Witness ==
    /\ Len(renderViews) = MaxViews
    /\ sessionState[1] = "ended"
    /\ session = 2
    /\ last.op = "onXRFrame"
    /\ last.got = "pose"
    /\ last.views = 1

\* The controller holds a session that is running.
SessionActive == session # Undefined /\ sessionState[session] = "active"

C27_UpdateDoesNothing ==
    [][ last'.op = "update" =>
            /\ last'.err = "none"
            /\ last'.log = <<>>
            /\ last'.submitted = <<>>
            /\ UNCHANGED <<config, contextAttributes,
                           device, session, canvas, gl, frameOfRef, renderViews,
                           _block, renderer, nextSession, sessionState,
                           baseLayer, raf, listeners, forPending>> ]_vars

\* C27 witness: update() has been called on a blocked controller that holds
\* a running session and a renderer.
C27_Witness ==
    /\ last.op = "update"
    /\ SessionActive
    /\ blocked
    /\ renderer # Undefined
    /\ raf[session] > 0

C30_NoDataNoBytes ==
    (initialized /\ ~image) => bytes = 0

\* C30 witness: a resize that changed the extent has run on an initialized
\* texture of a float type; it holds no image data and no bytes.
C30_Witness ==
    /\ initialized
    /\ last.op = "Texture2.resize"
    /\ last.ret = "changed"
    /\ _type = FLOAT
    /\ ~image
    /\ bytes = 0

\* C31: byteSizeOfFormat yields no byte size for DEPTH_COMPONENT and for
\* DEPTH_STENCIL: it fails its assertion for both, so that data() with image
\* data for a texture of one of these internal formats ends in the assertion
\* error.
C31_NoByteSizeOfDepthFormats ==
    ( /\ last.op = "Texture2.data"
      /\ initialized
      /\ last.arg # Undefined
      /\ internalFormat \in {DEPTH_COMPONENT, DEPTH_STENCIL} ) =>
        /\ byteSizeOfFormat(internalFormat).asserts
        /\ byteSizeOfFormat(internalFormat).size = 0
        /\ last.err = "AssertionError"

\* The part of C31 that holds: for DEPTH_COMPONENT the assertion fails.
C31_NoByteSizeOfDepthComponent ==
    ( /\ last.op = "Texture2.data"
      /\ initialized
      /\ last.arg # Undefined
      /\ internalFormat = DEPTH_COMPONENT ) =>
        /\ byteSizeOfFormat(internalFormat).asserts
        /\ byteSizeOfFormat(internalFormat).size = 0
        /\ last.err = "AssertionError"

\* C31 case: data() was given image data for a DEPTH_STENCIL texture.
C31_Witness ==
    /\ last.op = "Texture2.data"
    /\ initialized
    /\ last.arg # Undefined
    /\ internalFormat = DEPTH_STENCIL

\* C32: the end of a session the controller does not hold leaves the
\* session-scoped fields as they are: when a session ends while the
\* controller holds a newer one, session, canvas, gl and frameOfRef keep
\* their values.
C32_EndOfEarlierSessionLeavesNewer ==
    [][ \A s \in Sessions :
          ( /\ sessionState[s] = "active"
            /\ sessionState'[s] = "ended"
            /\ session # Undefined
            /\ session # s ) =>
                /\ session' = session
                /\ canvas' = canvas
                /\ gl' = gl
                /\ frameOfRef' = frameOfRef ]_vars

\* C32 case: session 1 has ended after session 2 was installed, and the
\* controller holds nothing.
C32_Witness ==
    /\ sessionState[1] = "ended"
    /\ sessionState[2] = "active"
    /\ listeners[1]
    /\ session = Undefined
    /\ gl = Undefined

\* C33: the controller does not keep holding a session that the device has
\* ended.  The end of a session and the run of its end listener are one
\* step, and no later step assigns an ended session, so the controller that
\* is notified does not hold the session after the step in which the device
\* ends it, whenever after the resolution of device.requestSession that is.
C33_EndedSessionIsReleased ==
    [][ \A s \in Sessions :
          (last'.op = "end" /\ last'.arg = s /\ sessionState[s] = "active") =>
              session' # s ]_vars

\* C33 case: the session has ended while requestSession() waited for the
\* frame of reference, before an end listener was registered on it.
C33_Witness ==
    /\ last.op = "end"
    /\ last.arg \in forPending
    /\ ~listeners[last.arg]
    /\ sessionState[last.arg] = "ended"

\* C34: in every reachable state a defined frameOfRef, gl or canvas comes
\* with a defined session.
C34_FieldsImplySession ==
    (frameOfRef # Undefined \/ gl # Undefined \/ canvas # Undefined) =>
        session # Undefined

\* The part of C34 that holds: the canvas and the context come with a
\* session, and with the session they were made for.
C34_ContextImpliesSession ==
    /\ (gl # Undefined \/ canvas # Undefined) => session # Undefined
    /\ session # Undefined => (gl = session /\ canvas = session)

\* C34 case: the frame of reference of a session has resolved on a
\* controller that holds no session.
C34_Witness ==
    /\ last.op = "requestSession"
    /\ last.err = "TypeError"
    /\ frameOfRef = last.arg
    /\ frameOfRef # Undefined
    /\ session = Undefined

\* C35: no render view handed to the renderer lacks its viewport: each of
\* the views of a frame that was submitted has a viewport, also when the
\* layer reported none (null) for it.
C35_SubmittedViewsHaveViewports ==
    (last.op = "onXRFrame" /\ SinkInvoked) =>
        \A i \in 1..last.views : last.submitted[i].viewport # Undefined

\* The part of C35 that holds: a submitted view has the viewport the layer
\* reported for it, whenever the layer reported one.
C35_ReportedViewportsAreSubmitted ==
    (last.op = "onXRFrame" /\ SinkInvoked) =>
        \A i \in 1..last.views :
            last.viewports[i] => last.submitted[i].viewport = GetViewport(i)

\* C35 case: a frame was submitted whose layer had no viewport for the
\* second of two views.
C35_Witness ==
    /\ last.op = "onXRFrame"
    /\ SinkInvoked
    /\ last.views = 2
    /\ last.viewports[1]
    /\ ~last.viewports[2]

\* C36: the elapsed time handed to the renderer is 0 on every frame with a
\* pose, whatever time stamp the platform gave to the callback.
C36_ElapsedIsZero ==
    (last.op = "onXRFrame" /\ SinkInvoked) => last.elapsed = 0

\* C36 witness: a frame that came with the time stamp 1 has been submitted
\* with the elapsed time 0.
C36_Witness ==
    /\ last.op = "onXRFrame"
    /\ SinkInvoked
    /\ last.got = "pose"
    /\ last.time = 1
    /\ last.elapsed = 0

\* C37: under the controller of unnamed/part_000, the callback registered
\* with the session runs the per-frame algorithm: when the platform runs
\* it with a frame that has a pose, on the running session of a completed
\* requestSession() with a renderer assigned, the renderer's frame() is
\* called and a callback is registered for the following frame.
C37_CallbackRunsFrameAlgorithm ==
    [][ \A s \in Sessions :
          ( /\ last'.op = "callback"
            /\ last'.arg = s
            /\ last'.pose # Undefined
            /\ raf[s] > 0
            /\ session = s
            /\ sessionState[s] = "active"
            /\ frameOfRef = s
            /\ listeners[s]
            /\ renderer # Undefined ) =>
                /\ SinkInvoked'
                /\ raf'[s] >= 1 ]_vars

\* C37 case: the callback of the running session has been run with a frame
\* that has a pose, a renderer being assigned; nothing is registered on the
\* session any more.
C37_Witness ==
    /\ last.op = "callback"
    /\ last.pose # Undefined
    /\ session = last.arg
    /\ sessionState[session] = "active"
    /\ frameOfRef = session
    /\ listeners[session]
    /\ renderer # Undefined
    /\ raf[session] = 0
    /\ ~SinkInvoked

====
